---- MODULE Spec2Model ----
(***************************************************************************)
(* LMDI index decomposition (src/src/lmdi_module.py): PyLMDI.Lfun, Xfun,   *)
(* Add, Mul, LMDI_single_step.LMDI_decomposer and                          *)
(* LMDI_analysis.LMDI_analysis_func.                                       *)
(*                                                                         *)
(* Numbers.  The code computes in IEEE doubles with np.log and np.exp.     *)
(* The model computes the same expressions in exact real arithmetic on a   *)
(* domain where that is decidable: every input value is 0 or a power of    *)
(* two, so the logarithm of an input ratio is an integer multiple of ln 2, *)
(* and the logarithm of a sum of inputs is a linear form in the logarithms *)
(* of primes.  Equality of model numbers is equality of the real numbers   *)
(* the code's expressions denote (the spec's "up to floating-point         *)
(* rounding").  Non-finite doubles (inf, -inf, nan) and the Python         *)
(* exception ZeroDivisionError are modelled as the code produces them.     *)
(***************************************************************************)
EXTENDS Integers, Sequences, FiniteSets, TLC

VARIABLES df, drivers, mode, start, stop, year, res, result, pc,
          V0, Vt, X0, Xt, npX, op, ans

vars == <<df, drivers, mode, start, stop, year, res, result, pc,
          V0, Vt, X0, Xt, npX, op, ans>>

(* ------------------------------ bounds -------------------------------- *)
\* input values are 2^e with e in 0..MaxExp
MaxExp == 1
\* a direct PyLMDI call has n rows and k drivers with n * k <= MaxCells
MaxCells == 4
\* rows of the single-driver calls whose driver is independent of the aggregate
MaxFreeRows == 2
\* a panel has years 0..MaxYear
MaxYear == 2
\* a panel has (years present) * (units per year) * (drivers) <= MaxPanelCells
MaxPanelCells == 4

(* --------------------------- exact arithmetic ------------------------- *)
Abs(x) == IF x < 0 THEN -x ELSE x

Min(a, b) == IF a <= b THEN a ELSE b

RECURSIVE GCD(_, _)
GCD(a, b) == IF b = 0 THEN a ELSE GCD(b, a % b)

RECURSIVE Pow(_, _)
Pow(b, e) == IF e = 0 THEN 1 ELSE b * Pow(b, e - 1)

\* the rational n/d in lowest terms with a positive denominator
Rat(n, d) ==
    LET g == GCD(Abs(n), Abs(d))
        s == IF d < 0 THEN -1 ELSE 1
    IN  <<(s * n) \div g, (s * d) \div g>>

RInt(n) == <<n, 1>>
RAdd(a, b) == Rat(a[1] * b[2] + b[1] * a[2], a[2] * b[2])
RMul(a, b) == Rat(a[1] * b[1], a[2] * b[2])
RDiv(a, b) == Rat(a[1] * b[2], a[2] * b[1])
RSign(a) == IF a[1] > 0 THEN 1 ELSE IF a[1] < 0 THEN -1 ELSE 0

RECURSIVE Valuation(_, _)
\* the exponent of p in y
Valuation(p, y) == IF y % p = 0 THEN 1 + Valuation(p, y \div p) ELSE 0

RECURSIVE Factors(_, _)
\* the prime factorisation of y >= 1, none of whose prime factors is below
\* p: the set of <<prime, exponent, 1>>
Factors(y, p) ==
    IF y = 1 THEN {}
    ELSE IF p * p > y THEN {<<y, 1, 1>>}
    ELSE IF y % p = 0
         THEN {<<p, Valuation(p, y), 1>>} \cup Factors(y \div Pow(p, Valuation(p, y)), p + 1)
         ELSE Factors(y, p + 1)

(* A log form is the real number SUM c_p * ln(p) over primes p with        *)
(* rational coefficients c_p, held as the set of <<p, num, den>> with      *)
(* c_p # 0.  Logarithms of primes are linearly independent over the        *)
(* rationals, so two log forms are the same real iff they are the same set.*)
LPrimes(f) == {t[1] : t \in f}
LCoef(f, p) ==
    IF p \in LPrimes(f)
    THEN LET t == CHOOSE t \in f : t[1] = p IN <<t[2], t[3]>>
    ELSE <<0, 1>>
LAdd(f, g) ==
    IF g = {} THEN f
    ELSE IF f = {} THEN g
    ELSE LET raw == {<<p, RAdd(LCoef(f, p), LCoef(g, p))>> : p \in LPrimes(f) \cup LPrimes(g)}
         IN  {<<t[1], t[2][1], t[2][2]>> : t \in {r \in raw : r[2][1] # 0}}
LScaleTerm(q, t) == LET c == RMul(q, <<t[2], t[3]>>) IN <<t[1], c[1], c[2]>>
LScale(q, f) == IF q[1] = 0 THEN {} ELSE {LScaleTerm(q, t) : t \in f}
\* ln(y) for an integer y >= 1
LogInt(y) == Factors(y, 2)
\* ln(q) for a rational q > 0
LogRat(q) ==
    IF q[2] = 1 THEN LogInt(q[1])
    ELSE LAdd(LogInt(q[1]), LScale(RInt(-1), LogInt(q[2])))
\* f = c * g for a rational c (g # {})
LProportional(f, g) ==
    LET p == CHOOSE p \in LPrimes(g) : TRUE
        c == RDiv(LCoef(f, p), LCoef(g, p))
    IN  f = LScale(c, g)
LRatio(f, g) ==
    LET p == CHOOSE p \in LPrimes(g) : TRUE
    IN  RDiv(LCoef(f, p), LCoef(g, p))
LIntegral(f) == \A t \in f : t[3] = 1
RECURSIVE LProduct(_, _)
\* PROD p^|c_p| over the terms of f whose coefficient has sign s (integral f)
LProduct(f, s) ==
    IF f = {} THEN 1
    ELSE LET t == CHOOSE t \in f : TRUE
         IN  (IF RSign(<<t[2], t[3]>>) = s THEN Pow(t[1], Abs(t[2])) ELSE 1)
             * LProduct(f \ {t}, s)
RECURSIVE LDenominator(_)
LDenominator(f) ==
    IF f = {} THEN 1
    ELSE LET t == CHOOSE t \in f : TRUE IN t[3] * LDenominator(f \ {t})
\* the sign of the real number f
LSign(f) ==
    LET h == LScale(RInt(LDenominator(f)), f)
        a == LProduct(h, 1)
        b == LProduct(h, -1)
    IN  IF a > b THEN 1 ELSE IF a < b THEN -1 ELSE 0

(* ------------------------- numbers of the code ------------------------ *)
(* k = "rat": the rational q          k = "log": the log form f # {}       *)
(* k = "inv": 1 / f                   k = "quot": f / g, not rational      *)
(* k = "pow": exp(f), not rational    k = "inf", "ninf", "nan": doubles    *)
(* k = "zde": the evaluation raised ZeroDivisionError                      *)
(* k = "irr": a real outside this algebra (never produced by the inputs    *)
(*            the specifications draw, see Representable)                  *)
Num(k, q, f, g) == [k |-> k, q |-> q, f |-> f, g |-> g]
FRat(q) == Num("rat", q, {}, {})
FInt(n) == FRat(RInt(n))
FLog(f) == IF f = {} THEN FInt(0) ELSE Num("log", <<0, 1>>, f, {})
FInv(f) == Num("inv", <<0, 1>>, f, {})
FQuot(f, g) ==
    IF LProportional(f, g) THEN FRat(LRatio(f, g))
    ELSE LET p == CHOOSE p \in LPrimes(g) : \A r \in LPrimes(g) : p <= r
             c == RDiv(<<1, 1>>, LCoef(g, p))
         IN  Num("quot", <<0, 1>>, LScale(c, f), LScale(c, g))
FPow(f) ==
    IF LIntegral(f) THEN FRat(Rat(LProduct(f, 1), LProduct(f, -1)))
    ELSE Num("pow", <<0, 1>>, f, {})
Inf == Num("inf", <<0, 1>>, {}, {})
NInf == Num("ninf", <<0, 1>>, {}, {})
NaN == Num("nan", <<0, 1>>, {}, {})
ZDE == Num("zde", <<0, 1>>, {}, {})
Irr == Num("irr", <<0, 1>>, {}, {})

IsZero(a) == a.k = "rat" /\ a.q[1] = 0
FSign(a) ==
    CASE a.k = "rat" -> RSign(a.q)
      [] a.k = "log" -> LSign(a.f)
      [] a.k = "inv" -> LSign(a.f)
      [] a.k = "quot" -> LSign(a.f) * LSign(a.g)
      [] a.k = "pow" -> 1
      [] a.k = "inf" -> 1
      [] a.k = "ninf" -> -1
      [] OTHER -> 0
Signed(s) == IF s > 0 THEN Inf ELSE IF s < 0 THEN NInf ELSE NaN

\* a * b
FMul(a, b) ==
    CASE a.k = "zde" \/ b.k = "zde" -> ZDE
      [] a.k = "irr" \/ b.k = "irr" -> Irr
      [] a.k = "nan" \/ b.k = "nan" -> NaN
      [] a.k \in {"inf", "ninf"} \/ b.k \in {"inf", "ninf"} ->
            Signed(FSign(a) * FSign(b))
      [] IsZero(a) \/ IsZero(b) -> FInt(0)
      [] a.k = "rat" /\ b.k = "rat" -> FRat(RMul(a.q, b.q))
      [] a.k = "rat" /\ b.k = "log" -> FLog(LScale(a.q, b.f))
      [] a.k = "log" /\ b.k = "rat" -> FLog(LScale(b.q, a.f))
      [] a.k = "inv" /\ b.k = "log" ->
            IF LProportional(b.f, a.f) THEN FRat(LRatio(b.f, a.f)) ELSE Irr
      [] a.k = "quot" /\ b.k = "log" ->
            IF LProportional(b.f, a.g)
            THEN FLog(LScale(LRatio(b.f, a.g), a.f)) ELSE Irr
      [] OTHER -> Irr

\* a / b, where b is the int 0 returned by Lfun, or a double
FDiv(a, b) ==
    CASE a.k = "zde" \/ b.k = "zde" -> ZDE
      [] a.k = "irr" \/ b.k = "irr" -> Irr
      [] IsZero(b) -> IF IsZero(a) THEN ZDE ELSE Signed(FSign(a))
      [] a.k = "rat" /\ b.k = "rat" -> FRat(RDiv(a.q, b.q))
      [] a.k = "rat" /\ b.k = "inv" -> FLog(LScale(a.q, b.f))
      [] a.k = "rat" /\ b.k = "log" ->
            IF IsZero(a) THEN FInt(0) ELSE FInv(LScale(RDiv(<<1, 1>>, a.q), b.f))
      [] a.k = "inv" /\ b.k = "inv" -> FQuot(b.f, a.f)
      [] OTHER -> Irr

\* a + b
FAdd(a, b) ==
    CASE a.k = "zde" \/ b.k = "zde" -> ZDE
      [] a.k = "irr" \/ b.k = "irr" -> Irr
      [] a.k = "nan" \/ b.k = "nan" -> NaN
      [] a.k \in {"inf", "ninf"} /\ b.k \in {"inf", "ninf"} ->
            IF a.k = b.k THEN a ELSE NaN
      [] a.k \in {"inf", "ninf"} -> a
      [] b.k \in {"inf", "ninf"} -> b
      [] IsZero(a) -> b
      [] IsZero(b) -> a
      [] a.k = "rat" /\ b.k = "rat" -> FRat(RAdd(a.q, b.q))
      [] a.k = "log" /\ b.k = "log" -> FLog(LAdd(a.f, b.f))
      [] OTHER -> Irr

\* a - b
FSub(a, b) == FAdd(a, FMul(FInt(-1), b))

\* Python's sum(list): a left fold from the int 0
RECURSIVE FSum(_)
FSum(s) ==
    IF s = <<>> THEN FInt(0) ELSE FAdd(FSum(SubSeq(s, 1, Len(s) - 1)), s[Len(s)])

RECURSIVE SumInt(_)
SumInt(s) == IF s = <<>> THEN 0 ELSE SumInt(SubSeq(s, 1, Len(s) - 1)) + s[Len(s)]

\* np.exp
NpExp(a) ==
    CASE a.k = "zde" -> ZDE
      [] a.k = "nan" -> NaN
      [] a.k = "inf" -> Inf
      [] a.k = "ninf" -> FInt(0)
      [] IsZero(a) -> FInt(1)
      [] a.k = "log" -> FPow(a.f)
      [] OTHER -> Irr

\* np.log of a double
NpLog(a) ==
    CASE a.k = "zde" -> ZDE
      [] a.k = "irr" -> Irr
      [] a.k = "inf" -> Inf
      [] a.k = "rat" /\ a.q[1] > 0 -> FLog(LogRat(a.q))
      [] a.k = "rat" /\ a.q[1] = 0 -> NInf
      [] OTHER -> NaN

\* end[i] / start[i]: a numpy scalar division gives inf or nan on a zero
\* divisor, a Python float division raises ZeroDivisionError
XDiv(xt, x0, np) ==
    IF x0 = 0
    THEN IF np THEN (IF xt = 0 THEN NaN ELSE Inf) ELSE ZDE
    ELSE FRat(Rat(xt, x0))

(* ------------------------------- PyLMDI ------------------------------- *)
LfunArithmeticMean(yt, y0) ==
    IF yt = y0 THEN FInt(0) ELSE FRat(Rat(yt + y0, 2))

\* PyLMDI.Lfun: the logarithmic mean, 0 (a Python int) when yt == y0
Lfun(yt, y0) ==
    IF yt = y0
    THEN FInt(0)
    ELSE FDiv(FInt(yt - y0), FSub(NpLog(FInt(yt)), NpLog(FInt(y0))))

\* PyLMDI.Xfun: the logarithmic ratio with the sentinel 1 on a zero operand
Xfun(xt, x0) ==
    IF x0 = 0 THEN FInt(1)
    ELSE IF xt = 0 THEN FInt(1)
    ELSE NpLog(FRat(Rat(xt, x0)))

Raised(e) == [status |-> e, val |-> <<>>]
Returned(v) == [status |-> "ok", val |-> v]
Outcome(v) ==
    IF \E j \in 1..Len(v) : v[j].k = "zde"
    THEN Raised("ZeroDivisionError") ELSE Returned(v)

\* one term of Add's inner list: Lfun(Vt[i], V0[i]) * np.log(end[i] / start[i])
AddTerm(vt, v0, xt, x0, np) == FMul(Lfun(vt, v0), NpLog(XDiv(xt, x0, np)))

AddFirstRowOnly(v0, vt, x0, xt, np) ==
    LET m == Min(Len(x0), Len(xt))
        temp(j) == FSum([i \in 1..Min(1, Len(x0[j])) |->
                          AddTerm(vt[i], v0[i], xt[j][i], x0[j][i], np)])
    IN  Outcome(<<FInt(SumInt(vt) - SumInt(v0))>> \o [j \in 1..m |-> temp(j)])

\* PyLMDI.Add
Add(v0, vt, x0, xt, np) ==
    LET m == Min(Len(x0), Len(xt))
        temp(j) == FSum([i \in 1..Len(x0[j]) |->
                          AddTerm(vt[i], v0[i], xt[j][i], x0[j][i], np)])
    IN  Outcome(<<FInt(SumInt(vt) - SumInt(v0))>> \o [j \in 1..m |-> temp(j)])

\* sum(Vt) / np.sum(V0): a division by the numpy scalar np.sum(V0)
TotalRatio(svt, sv0) ==
    IF sv0 = 0 THEN (IF svt = 0 THEN NaN ELSE Inf) ELSE FRat(Rat(svt, sv0))

\* one term of Mul's inner list, lsum being Lfun(sum(Vt), sum(V0)):
\* Lfun(Vt[i], V0[i]) / Lfun(sum(Vt), sum(V0)) * np.log(end[i] / start[i])
MulTerm(vt, v0, lsum, xt, x0, np) ==
    FMul(FDiv(Lfun(vt, v0), lsum), NpLog(XDiv(xt, x0, np)))

MulUnweighted(v0, vt, x0, xt, np) ==
    LET m == Min(Len(x0), Len(xt))
        temp(j) == FSum([i \in 1..Len(x0[j]) |-> NpLog(XDiv(xt[j][i], x0[j][i], np))])
    IN  Outcome(<<TotalRatio(SumInt(vt), SumInt(v0))>> \o [j \in 1..m |-> NpExp(temp(j))])

\* PyLMDI.Mul
Mul(v0, vt, x0, xt, np) ==
    LET m == Min(Len(x0), Len(xt))
        lsum == Lfun(SumInt(vt), SumInt(v0))
        temp(j) == FSum([i \in 1..Len(x0[j]) |->
                          MulTerm(vt[i], v0[i], lsum, xt[j][i], x0[j][i], np)])
    IN  Outcome(<<TotalRatio(SumInt(vt), SumInt(v0))>> \o [j \in 1..m |-> NpExp(temp(j))])

(* --------------------------- LMDI_single_step ------------------------- *)
\* df[df[year_col] == y]: the rows of year y, in panel order
YearRows(d, y) == SelectSeq(d, LAMBDA r : r.year = y)

\* df[emissions_col].tolist()
Emissions(rows) == [i \in 1..Len(rows) |-> rows[i].e]

\* df[drivers].values.reshape([-1, 1]): the n-by-k driver block flattened
\* row by row into n*k vectors of length 1
Reshape(rows, k) ==
    [j \in 1..(Len(rows) * k) |-> <<rows[((j - 1) \div k) + 1].x[((j - 1) % k) + 1]>>]

\* the mode dispatch of LMDI_decomposer
Dispatch(m, v0, vt, x0, xt) ==
    IF m = "add" THEN Add(v0, vt, x0, xt, TRUE) ELSE Mul(v0, vt, x0, xt, TRUE)

ZipDriversKeepTotal(k, a) == [d \in 1..Min(k, Len(a)) |-> a[d]]

\* {driver: value for driver, value in zip(drivers, ans[1:])}
ZipDrivers(k, a) == [d \in 1..Min(k, Len(a) - 1) |-> a[d + 1]]

\* results = {...}; return results (an exception of the call propagates)
Results(k, a) == IF a.status = "ok" THEN Returned(ZipDrivers(k, a.val)) ELSE a

\* the PyLMDI instance built from the two year slices, and its dispatch
Decompose(m, k, r0, r1) ==
    Dispatch(m, Emissions(r0), Emissions(r1), Reshape(r0, k), Reshape(r1, k))

\* LMDI_single_step.LMDI_decomposer for starting year y
LMDI_decomposer(d, y, m, k) ==
    Results(k, Decompose(m, k, YearRows(d, y), YearRows(d, y + 1)))

(* ----------------------------- LMDI_analysis -------------------------- *)
\* range(start, stop)
Range(a, b) == [i \in 1..(IF b > a THEN b - a ELSE 0) |-> a + i - 1]

RangeInclusive(a, b) == [i \in 1..(IF b >= a THEN b - a + 1 ELSE 0) |-> a + i - 1]

\* the loop bound of LMDI_analysis_func
LoopRange(a, b) == Range(a, b)

RECURSIVE MaxLen(_)
MaxLen(rs) ==
    IF rs = <<>> THEN 0
    ELSE LET h == MaxLen(Tail(rs)) IN IF Len(rs[1]) > h THEN Len(rs[1]) ELSE h

\* pd.DataFrame(res, index=range(start, stop)): the columns are the keys of
\* the mappings in order of first appearance, a key a row lacks reads NaN
DataFrame(rs, idx) ==
    [index |-> idx,
     columns |-> [c \in 1..MaxLen(rs) |-> c],
     rows |-> [i \in 1..Len(rs) |->
                 [c \in 1..MaxLen(rs) |-> IF c <= Len(rs[i]) THEN rs[i][c] ELSE NaN]]]

NoFrame == [index |-> <<>>, columns |-> <<>>, rows |-> <<>>]
NoAns == Raised("none")

(* ------------------------------- inputs ------------------------------- *)
Vals == {Pow(2, e) : e \in 0..MaxExp}

RECURSIVE ProductAt(_, _, _)
\* the product over the first d drivers of row i
ProductAt(x, d, i) == IF d = 0 THEN 1 ELSE ProductAt(x, d - 1, i) * x[d][i]

Shapes == {s \in (1..MaxCells) \X (1..MaxCells) : s[1] * s[2] <= MaxCells}

PanelShapes ==
    {s \in (SUBSET (0..MaxYear)) \X (1..MaxPanelCells) \X (1..MaxPanelCells) :
        (IF s[1] = {} THEN 1 ELSE Cardinality(s[1])) * s[2] * s[3] <= MaxPanelCells}

RECURSIVE PanelRows(_, _, _, _, _)
\* the rows of the panel, year by year from y on, each year's units in order
PanelRows(present, u, k, x, y) ==
    IF y > MaxYear THEN <<>>
    ELSE (IF y \in present
          THEN [i \in 1..u |->
                  [year |-> y, x |-> x[y][i],
                   e |-> ProductAt([d \in 1..k |-> <<x[y][i][d]>>], k, 1)]]
          ELSE <<>>) \o PanelRows(present, u, k, x, y + 1)

PairIdle ==
    /\ V0 = <<>> /\ Vt = <<>> /\ X0 = <<>> /\ Xt = <<>>
    /\ npX = TRUE /\ op = "none" /\ ans = NoAns

PanelIdle ==
    /\ df = <<>> /\ drivers = 0 /\ mode = "add" /\ start = 0 /\ stop = 0
    /\ year = 0 /\ res = <<>> /\ result = NoFrame

\* a panel whose aggregate is the product of its drivers in every row, a
\* mode string, and a year range
Init ==
    /\ \E s \in PanelShapes :
         \E x \in [s[1] -> [1..s[2] -> [1..s[3] -> Vals]]] :
            /\ df = PanelRows(s[1], s[2], s[3], x, 0)
            /\ drivers = s[3]
    /\ mode \in {"add", "mul", "other"}
    /\ start \in 0..MaxYear
    /\ stop \in start..MaxYear
    /\ year = start
    /\ res = <<>>
    /\ result = NoFrame
    /\ pc = "loop"
    /\ PairIdle

\* a direct PyLMDI call on k driver vectors of n rows whose aggregate is the
\* product of the drivers in both periods
InitPair ==
    /\ \E s \in Shapes :
         /\ X0 \in [1..s[2] -> [1..s[1] -> Vals]]
         /\ Xt \in [1..s[2] -> [1..s[1] -> Vals]]
         /\ V0 = [i \in 1..s[1] |-> ProductAt(X0, s[2], i)]
         /\ Vt = [i \in 1..s[1] |-> ProductAt(Xt, s[2], i)]
    /\ npX = FALSE
    /\ op = "none" /\ ans = NoAns /\ pc = "call"
    /\ PanelIdle

\* a direct single-driver PyLMDI call whose driver ends at any positive
\* value, whatever the aggregate does: Add and Mul read a driver only
\* through the ratio end[i] / start[i], so the driver starts at the
\* aggregate's value and the ratio ranges over all those of the value set
InitFree ==
    /\ \E n \in 1..MaxFreeRows :
         /\ V0 \in [1..n -> Vals]
         /\ Vt \in [1..n -> Vals]
         /\ Xt \in [1..1 -> [1..n -> Vals]]
    /\ X0 = <<V0>>
    /\ npX = FALSE
    /\ op = "none" /\ ans = NoAns /\ pc = "call"
    /\ PanelIdle

\* a direct single-driver PyLMDI call whose driver values may be zero, on
\* Python lists (npX = FALSE) or numpy arrays (npX = TRUE)
InitZero ==
    /\ \E n \in 1..MaxFreeRows :
         /\ V0 \in [1..n -> Vals]
         /\ Vt \in [1..n -> Vals]
         /\ X0 \in [1..1 -> [1..n -> Vals \cup {0}]]
         /\ Xt \in [1..1 -> [1..n -> Vals \cup {0}]]
    /\ npX \in BOOLEAN
    /\ op = "none" /\ ans = NoAns /\ pc = "call"
    /\ PanelIdle

(* ------------------------------- actions ------------------------------ *)
\* PyLMDI(Vt, V0, Xt, X0).Add()
CallAdd ==
    /\ pc = "call"
    /\ ans' = Add(V0, Vt, X0, Xt, npX)
    /\ op' = "Add"
    /\ pc' = "returned"
    /\ UNCHANGED <<df, drivers, mode, start, stop, year, res, result,
                   V0, Vt, X0, Xt, npX>>

\* PyLMDI(Vt, V0, Xt, X0).Mul()
CallMul ==
    /\ pc = "call"
    /\ ans' = Mul(V0, Vt, X0, Xt, npX)
    /\ op' = "Mul"
    /\ pc' = "returned"
    /\ UNCHANGED <<df, drivers, mode, start, stop, year, res, result,
                   V0, Vt, X0, Xt, npX>>

\* one iteration of the loop of LMDI_analysis_func: LMDI_decomposer for
\* `year`, whose mapping is appended to res; an exception ends the run
Step ==
    /\ pc = "loop"
    /\ year - start + 1 <= Len(LoopRange(start, stop))
    /\ V0' = Emissions(YearRows(df, year))
    /\ Vt' = Emissions(YearRows(df, year + 1))
    /\ X0' = Reshape(YearRows(df, year), drivers)
    /\ Xt' = Reshape(YearRows(df, year + 1), drivers)
    /\ ans' = LMDI_decomposer(df, year, mode, drivers)
    /\ IF ans'.status = "ok"
       THEN /\ res' = Append(res, ans'.val)
            /\ year' = year + 1
            /\ pc' = "loop"
       ELSE /\ res' = res
            /\ year' = year
            /\ pc' = "raised"
    /\ op' = "step"
    /\ UNCHANGED <<df, drivers, mode, start, stop, result, npX>>

\* the end of LMDI_analysis_func: the result table is built and returned
Finish ==
    /\ pc = "loop"
    /\ year - start + 1 > Len(LoopRange(start, stop))
    /\ result' = DataFrame(res, Range(start, stop))
    /\ pc' = "done"
    /\ UNCHANGED <<df, drivers, mode, start, stop, year, res,
                   V0, Vt, X0, Xt, npX, op, ans>>

Next == Step \/ Finish

NextPair == CallAdd \/ CallMul

Spec == Init /\ [][Next]_vars

SpecPair == InitPair /\ [][NextPair]_vars

SpecFree == InitFree /\ [][NextPair]_vars

SpecZero == InitZero /\ [][NextPair]_vars

\* every number the code computes on these inputs is one the algebra holds
Representable ==
    /\ \A j \in 1..Len(ans.val) : ans.val[j].k # "irr"
    /\ \A i \in 1..Len(res) : \A j \in 1..Len(res[i]) : res[i][j].k # "irr"

(* ------------------------- operators of the claims -------------------- *)
\* ln of a positive rational or of an exp(f)
NumLog(a) == IF a.k = "rat" THEN LogRat(a.q) ELSE a.f

RECURSIVE LogSum(_)
LogSum(s) ==
    IF s = <<>> THEN {} ELSE LAdd(LogSum(SubSeq(s, 1, Len(s) - 1)), NumLog(s[Len(s)]))

\* the product of a list of positive finite numbers
FProd(s) ==
    IF \A j \in 1..Len(s) : s[j].k = "pow" \/ (s[j].k = "rat" /\ s[j].q[1] > 0)
    THEN FPow(LogSum(s)) ELSE NaN

\* the aggregate of every row is the product of its drivers, in both periods
Identity ==
    /\ \A i \in 1..Len(V0) : V0[i] = ProductAt(X0, Len(X0), i)
    /\ \A i \in 1..Len(Vt) : Vt[i] = ProductAt(Xt, Len(Xt), i)

\* the panel has at least one row for year y
HasYear(y) == \E i \in 1..Len(df) : df[i].year = y

\* the contribution of driver d as section 4.3 of the spec writes it, with
\* LogRatio (Xfun) in place of the bare logarithm
AddWithLogRatio(d) ==
    FSum([i \in 1..Len(X0[d]) |-> FMul(Lfun(Vt[i], V0[i]), Xfun(Xt[d][i], X0[d][i]))])

(* -------------------------------- claims ------------------------------ *)
\* C1: additive closure. After PyLMDI.Add on positive inputs that satisfy
\* the identity, the call returns k + 1 elements and the sum of the driver
\* contributions equals element 0, sum(Vt) - sum(V0), also when some rows
\* have Vt[i] = V0[i] and Lfun returns 0 for them.
C1_AdditiveClosure ==
    (op = "Add" /\ Identity) =>
        /\ ans.status = "ok"
        /\ Len(ans.val) = Len(X0) + 1
        /\ ans.val[1] = FInt(SumInt(Vt) - SumInt(V0))
        /\ FSum(Tail(ans.val)) = ans.val[1]

\* Add has returned for two drivers over rows of which one is unchanged
\* (Lfun = 0) and one has changed
C1_Witness ==
    /\ op = "Add" /\ Identity /\ Len(X0) >= 2 /\ Len(V0) >= 2
    /\ \E i \in 1..Len(V0) : Vt[i] = V0[i]
    /\ \E i \in 1..Len(V0) : Vt[i] # V0[i]
    /\ \E d \in 1..Len(X0) : ~IsZero(ans.val[d + 1])

\* C2: multiplicative closure. After PyLMDI.Mul on positive inputs that
\* satisfy the identity and have sum(Vt) # sum(V0), the product of the
\* driver factors equals element 0, sum(Vt) / sum(V0).
C2_MultiplicativeClosure ==
    (op = "Mul" /\ Identity /\ SumInt(Vt) # SumInt(V0)) =>
        /\ ans.status = "ok"
        /\ Len(ans.val) = Len(X0) + 1
        /\ ans.val[1] = FRat(Rat(SumInt(Vt), SumInt(V0)))
        /\ FProd(Tail(ans.val)) = ans.val[1]

\* Mul has returned for two drivers over two rows with an irrational factor
C2_Witness ==
    /\ op = "Mul" /\ Identity /\ SumInt(Vt) # SumInt(V0)
    /\ Len(X0) >= 2 /\ Len(V0) >= 2
    /\ \E d \in 1..Len(X0) : ans.val[d + 1].k = "pow"

\* C3: end to end over two units. For a step over two unit rows per year
\* and a single driver equal to the aggregate, the driver's value is the
\* total over both units: sum(Vt) - sum(V0) in mode "add", and
\* sum(Vt) / sum(V0) in mode "mul" (stated for sum(Vt) # sum(V0)).
C3_TwoUnitStepIsTotal ==
    (op = "step" /\ drivers = 1 /\ Len(V0) = 2 /\ Len(Vt) = 2) =>
        /\ mode = "add" =>
              ans.status = "ok" /\ ans.val = <<FInt(SumInt(Vt) - SumInt(V0))>>
        /\ (mode = "mul" /\ SumInt(Vt) # SumInt(V0)) =>
              ans.status = "ok" /\ ans.val = <<FRat(Rat(SumInt(Vt), SumInt(V0)))>>

\* C4: multi-year scan. When LMDI_analysis_func has returned for
\* start < stop over a panel that holds every year start..stop, the table
\* has stop - start rows indexed start..stop-1 in order, row y is the
\* mapping LMDI_decomposer returns for y, and the columns are the drivers
\* in input order.
C4_ScanShape ==
    (pc = "done" /\ start < stop /\ \A y \in start..stop : HasYear(y)) =>
        /\ Len(result.rows) = stop - start
        /\ result.index = [i \in 1..(stop - start) |-> start + i - 1]
        /\ result.columns = [c \in 1..drivers |-> c]
        /\ \A i \in 1..(stop - start) :
              /\ LMDI_decomposer(df, start + i - 1, mode, drivers).status = "ok"
              /\ result.rows[i] = LMDI_decomposer(df, start + i - 1, mode, drivers).val

\* a three-year panel scanned with start = Y, stop = Y + 2 has returned
C4_Witness ==
    /\ pc = "done" /\ stop = start + 2 /\ \A y \in start..stop : HasYear(y)
    /\ Len(result.rows) = 2
    /\ result.rows[1] # result.rows[2]

\* C5: invalid mode. A step run with a mode other than "add" or "mul"
\* ends in an error and returns no decomposition (stated for the steps
\* whose two years are both in the panel).
C5_InvalidModeRejected ==
    (op = "step" /\ mode \notin {"add", "mul"} /\ V0 # <<>> /\ Vt # <<>>) =>
        pc = "raised"

\* C6: missing year. A step for a starting year t whose rows, or whose
\* year t+1 rows, are absent from the panel ends in a runtime failure, and
\* the scan returns no table.
C6_MissingYearFails ==
    /\ (op = "step" /\ (V0 = <<>> \/ Vt = <<>>) /\ pc # "done") => pc = "raised"
    /\ (pc = "done" /\ start < stop) => \A y \in start..stop : HasYear(y)

\* C7: degenerate aggregate. PyLMDI.Mul on inputs with sum(Vt) = sum(V0)
\* ends in an error, whatever the rows; it returns no list of factors.
C7_DegenerateMulIsError ==
    (op = "Mul" /\ SumInt(Vt) = SumInt(V0)) => ans.status # "ok"

\* C8 as stated: after PyLMDI.Add with one driver over positive values, the
\* driver contribution equals the total change.
C8_SingleDriverIsTotal ==
    (op = "Add" /\ Len(X0) = 1) =>
        ans.status = "ok" /\ ans.val[2] = ans.val[1]

\* C8 amended: after PyLMDI.Add with one driver over positive values whose
\* ratio Xt[i] / X0[i] equals Vt[i] / V0[i] in every row (as when the driver
\* is the aggregate), the driver contribution equals the total change.
C8_SingleDriverIsTotalOnIdentity ==
    (op = "Add" /\ Len(X0) = 1
       /\ \A i \in 1..Len(V0) : Xt[1][i] * V0[i] = Vt[i] * X0[1][i]) =>
        ans.status = "ok" /\ ans.val[2] = ans.val[1]

\* Add has returned for one driver equal to the aggregate over two rows that
\* both change while the total does not
C8_Witness ==
    /\ op = "Add" /\ Len(X0) = 1 /\ Len(V0) = 2
    /\ V0 = X0[1] /\ Vt = Xt[1]
    /\ \A i \in 1..2 : Vt[i] # V0[i]
    /\ SumInt(Vt) = SumInt(V0)
    /\ ans.val[2] = FInt(0)

\* C9: zero driver values. After PyLMDI.Add the contribution of the driver
\* is the sum of Lfun(Vt[i], V0[i]) * Xfun(Xt[i], X0[i]), so a row with a
\* zero driver value contributes Lfun(Vt[i], V0[i]) * 1, and no logarithm
\* of zero or division by zero is evaluated (the call returns a finite
\* value).
C9_AddUsesLogRatio ==
    (op = "Add" /\ Len(X0) = 1) =>
        ans.status = "ok" /\ ans.val[2] = AddWithLogRatio(1)

\* C10: single-unit panels. For a step over one row per year with
\* Vt # V0, the mapping has the k drivers in order; in mode "add" driver d
\* maps to Lfun(Vt, V0) * ln(Xt[d] / X0[d]) and the values sum to Vt - V0;
\* in mode "mul" driver d maps to Xt[d] / X0[d] and the values multiply to
\* Vt / V0.
C10_SingleUnitStep ==
    (op = "step" /\ Len(V0) = 1 /\ Len(Vt) = 1 /\ Vt[1] # V0[1]
       /\ mode \in {"add", "mul"}) =>
        /\ ans.status = "ok"
        /\ Len(ans.val) = drivers
        /\ mode = "add" =>
              /\ \A d \in 1..drivers :
                    ans.val[d] = FMul(Lfun(Vt[1], V0[1]),
                                      NpLog(FRat(Rat(Xt[d][1], X0[d][1]))))
              /\ FSum(ans.val) = FInt(Vt[1] - V0[1])
        /\ mode = "mul" =>
              /\ \A d \in 1..drivers : ans.val[d] = FRat(Rat(Xt[d][1], X0[d][1]))
              /\ FProd(ans.val) = FRat(Rat(Vt[1], V0[1]))

\* a multiplicative step over one unit and two drivers that change by
\* different ratios has returned
C10_Witness ==
    /\ op = "step" /\ mode = "mul" /\ drivers = 2
    /\ Len(V0) = 1 /\ Len(Vt) = 1 /\ Vt[1] # V0[1]
    /\ ans.status = "ok"
    /\ ans.val[1] # ans.val[2]

====
